---- MODULE Spec2Model ----
(***************************************************************************)
(* Model of apps/data_visualization_agent-app/app.py: the Streamlit script *)
(* that records a question, runs the SQL step, records its result or       *)
(* error, runs the visualization step and records its result.              *)
(*                                                                         *)
(* Session state (st.session_state) survives script runs: the chat         *)
(* messages kept by StreamlitChatMessageHistory and the list               *)
(* "dataframes".  A text is a sequence of tokens; the token MARKER is the  *)
(* substring "DATAFRAME_INDEX:", a digit token is one decimal digit, any   *)
(* other token is text that holds neither.                                 *)
(***************************************************************************)
EXTENDS Integers, Sequences, FiniteSets, TLC

\* ---------------------------------------------------------------- bounds
MaxQuestions == 2

\* ------------------------------------------------------------- text layer
MARKER == "DATAFRAME_INDEX:"

DigitChars == <<"0", "1", "2", "3", "4", "5", "6", "7", "8", "9">>

IsDigit(c) == \E d \in 1..10 : DigitChars[d] = c

DigitVal(c) == (CHOOSE d \in 1..10 : DigitChars[d] = c) - 1

\* str(n) for n >= 0
RECURSIVE IntToStr(_)
IntToStr(n) ==
    IF n < 10 THEN <<DigitChars[n + 1]>>
    ELSE IntToStr(n \div 10) \o <<DigitChars[(n % 10) + 1]>>

\* int(s) raises ValueError unless s is a non-empty run of digits
IntValid(s) == Len(s) > 0 /\ \A i \in 1..Len(s) : IsDigit(s[i])

RECURSIVE StrToInt(_)
StrToInt(s) ==
    IF Len(s) = 0 THEN 0
    ELSE 10 * StrToInt(SubSeq(s, 1, Len(s) - 1)) + DigitVal(s[Len(s)])

\* "DATAFRAME_INDEX:" in content
HasMarker(content) == \E i \in 1..Len(content) : content[i] = MARKER

FirstMarker(content) ==
    CHOOSE i \in 1..Len(content) :
        content[i] = MARKER /\ \A j \in 1..(i - 1) : content[j] # MARKER

\* content.split("DATAFRAME_INDEX:")[1]: what follows the first marker, up
\* to the next marker or the end of the text
SplitSecond(content) ==
    LET rest == SubSeq(content, FirstMarker(content) + 1, Len(content))
    IN  IF HasMarker(rest) THEN SubSeq(rest, 1, FirstMarker(rest) - 1)
        ELSE rest

\* ------------------------------------------------------------ input sets
Questions == { <<"q">>, <<MARKER, "0">>, <<MARKER, "q">> }

SqlTexts == { <<>>, <<"SELECT">> }

\* str(e): an exception message is free text and may quote the marker
Errors == { <<"e">>, <<"e", MARKER, "0">> }

\* response_df: no table at all, a table of zero rows, a table with rows
Tables == { "None", "empty", "rows" }

NumRows(df) == IF df = "rows" THEN 1 ELSE 0

\* plotly_graph: falsy (no chart) or a figure
Graphs == { "None", "fig" }

\* ------------------------------------------------------------------ state
VARIABLES
    messages,        \* st.session_state["langchain_messages"]
    df_present,      \* "dataframes" in st.session_state
    dataframes,      \* st.session_state.dataframes
    pc,              \* position of the script run
    question,        \* the question under processing
    error_occured,   \* local flag of the run
    sql_query,       \* result.get_sql_query_code()
    response_df,     \* result.get_data_sql()
    display_error,   \* exception raised by display_chat_history, if any
    nq,              \* questions accepted so far
    qstart,          \* len(messages) when the question was accepted
    qdfs,            \* len(dataframes) when the question was accepted
    sql_calls,       \* invocations of the SQL step for this question
    viz_calls,       \* invocations of the visualization step, this question
    st_errors,       \* st.error calls while handling this question
    plotly_charts,   \* st.plotly_chart calls while handling this question
    viz_outcome,     \* how the visualization step ended for this question
    snap_messages,   \* messages when the visualization step was invoked
    snap_dataframes, \* dataframes when the visualization step was invoked
    assigned         \* the df_index values handed out, in order

vars == << messages, df_present, dataframes, pc, question, error_occured,
           sql_query, response_df, display_error, nq, qstart, qdfs,
           sql_calls, viz_calls, st_errors, plotly_charts, viz_outcome, snap_messages,
           snap_dataframes, assigned >>

\* A message as StreamlitChatMessageHistory keeps it (type, content); q and
\* what record which question and which statement appended it and are read
\* by no operation of the program.
Turn(type, content, q, what) ==
    [type |-> type, content |-> content, q |-> q, what |-> what]

\* ---------------------------------------------------------- literal texts
Greeting == <<"How can I help you?">>

ErrorText(e) == <<"I am sorry. Error:">> \o e

Response1(sql) == <<"SQL Results: SQL Query:">> \o sql \o <<"Result:">>

DataframeRef(df_index) == <<MARKER>> \o IntToStr(df_index)

VizResponse == <<"Visualization created based on the data">>

\* ------------------------------------------------------------- rendering
\* What display_chat_history does with one message, given the stored tables
RenderOutcome(msg, dfs) ==
    IF HasMarker(msg.content)
    THEN IF ~IntValid(SplitSecond(msg.content)) THEN "ValueError"
         ELSE IF StrToInt(SplitSecond(msg.content)) >= Len(dfs)
              THEN "IndexError"
              ELSE "dataframe"
    ELSE "write"

Raises(outcome) == outcome \in {"ValueError", "IndexError"}

\* display_chat_history(): "none" when every message renders, otherwise the
\* exception of the first message that does not
DisplayChatHistory(msgs, dfs) ==
    LET bad == { i \in 1..Len(msgs) : Raises(RenderOutcome(msgs[i], dfs)) }
    IN  IF bad = {} THEN "none"
        ELSE RenderOutcome(msgs[CHOOSE i \in bad : \A j \in bad : i <= j], dfs)

\* --------------------------------------------------- session initialisation
\* the history rebuilt on every script run
InitMessages_reset(msgs) == << Turn("ai", Greeting, 0, "greeting") >>

\* the greeting added on every script run, the emptiness test left out
InitMessages_always(msgs) == Append(msgs, Turn("ai", Greeting, 0, "greeting"))

InitMessages(msgs) ==
    IF Len(msgs) = 0 THEN << Turn("ai", Greeting, 0, "greeting") >> ELSE msgs

\* the list created on every script run, the membership test left out
InitDataframes_reset(present, dfs) == << >>

InitDataframes(present, dfs) == IF ~present THEN << >> ELSE dfs

\* ------------------------------------------------- what each branch records
\* the index taken after the append instead of before it
DfIndex_afterAppend(dfs) == Len(dfs) + 1

DfIndex(dfs) == Len(dfs)

\* the question is shown but not recorded
QuestionTurns_unrecorded(q, n) == << >>

QuestionTurns(q, n) == << Turn("human", q, n, "question") >>

SqlFailureTurns(e, n) == << Turn("ai", ErrorText(e), n, "error") >>

\* the table reference recorded ahead of the SQL text
SqlSuccessTurns_swapped(sql, df_index, n) ==
    << Turn("ai", DataframeRef(df_index), n, "table_ref"),
       Turn("ai", Response1(sql), n, "sql_text") >>

SqlSuccessTurns(sql, df_index, n) ==
    << Turn("ai", Response1(sql), n, "sql_text"),
       Turn("ai", DataframeRef(df_index), n, "table_ref") >>

VizSuccessTurns(n) == << Turn("ai", VizResponse, n, "viz_confirmation") >>

\* the visualization failure recorded the way the SQL failure is
VizFailureTurns_recorded(e, n) == << Turn("ai", ErrorText(e), n, "error") >>

VizFailureTurns(e, n) == << >>

\* The program keeps no store of charts: plotly_graph goes to st.plotly_chart
\* and is dropped; session state holds "dataframes" only.
ChartArtifacts == << >>

\* "if sql_query:" with the guard left out
SqlTruthy_always(sql) == TRUE

\* "if sql_query:": a non-empty query text
SqlTruthy(sql) == sql # << >>

\* "if plotly_graph:" with the guard left out
GraphTruthy_always(g) == TRUE

\* "if plotly_graph:": a figure was produced
GraphTruthy(g) == g # "None"

\* a question taken up while the previous one is still being processed
AcceptsAt_anytime(p) == p # "RecordingQuestion"

\* The chat input is read by a script run, and a script run starts only
\* after the previous one has ended.
AcceptsAt(p) == p \in {"Idle", "Done"}

\* after the except branch of the SQL step, "if not error_occured" skips the
\* rest of the run
\* error_occured not honoured: the run goes on to the visualization
PcAfterSqlFailure_goesOn == "SQLSucceeded"

\* the SQL step attempted again after a failure
PcAfterSqlFailure_retry == "RecordingQuestion"

PcAfterSqlFailure == "Done"

\* ------------------------------------------------------------------- Init
Init ==
    /\ messages = << >>
    /\ df_present = FALSE
    /\ dataframes = << >>
    /\ pc = "Idle"
    /\ question = << >>
    /\ error_occured = FALSE
    /\ sql_query = << >>
    /\ response_df = "None"
    /\ display_error = "none"
    /\ nq = 0
    /\ qstart = 0
    /\ qdfs = 0
    /\ sql_calls = 0
    /\ viz_calls = 0
    /\ st_errors = 0
    /\ plotly_charts = 0
    /\ viz_outcome = "none"
    /\ snap_messages = << >>
    /\ snap_dataframes = << >>
    /\ assigned = << >>

\* ---------------------------------------------------------------- actions
\* A script run with no question submitted, or one that display_chat_history
\* aborts before the chat input is reached.
Rerun ==
    /\ pc \in {"Idle", "Done"}
    /\ messages' = InitMessages(messages)
    /\ df_present' = TRUE
    /\ dataframes' = InitDataframes(df_present, dataframes)
    /\ display_error' = DisplayChatHistory(messages', dataframes')
    /\ pc' = "Idle"
    /\ UNCHANGED << question, error_occured, sql_query, response_df, nq,
                    qstart, qdfs, sql_calls, viz_calls, st_errors, plotly_charts,
                    viz_outcome, snap_messages, snap_dataframes, assigned >>

\* A script run with a question submitted: initialisation, rendering, then
\* the user message is recorded.
AcceptQuestion(q) ==
    /\ AcceptsAt(pc)
    /\ nq < MaxQuestions
    /\ DisplayChatHistory(InitMessages(messages),
                          InitDataframes(df_present, dataframes)) = "none"
    /\ messages' = InitMessages(messages) \o QuestionTurns(q, nq + 1)
    /\ df_present' = TRUE
    /\ dataframes' = InitDataframes(df_present, dataframes)
    /\ display_error' = "none"
    /\ question' = q
    /\ nq' = nq + 1
    /\ qstart' = Len(InitMessages(messages))
    /\ qdfs' = Len(InitDataframes(df_present, dataframes))
    /\ error_occured' = FALSE
    /\ sql_query' = << >>
    /\ response_df' = "None"
    /\ sql_calls' = 0
    /\ viz_calls' = 0
    /\ st_errors' = 0
    /\ plotly_charts' = 0
    /\ viz_outcome' = "none"
    /\ pc' = "RecordingQuestion"
    /\ UNCHANGED << snap_messages, snap_dataframes, assigned >>

\* asyncio.run(handle_question(question)) is entered
InvokeSQL ==
    /\ pc = "RecordingQuestion"
    /\ sql_calls' = sql_calls + 1
    /\ pc' = "RunningSQL"
    /\ UNCHANGED << messages, df_present, dataframes, question,
                    error_occured, sql_query, response_df, display_error, nq,
                    qstart, qdfs, viz_calls, st_errors, plotly_charts, viz_outcome,
                    snap_messages, snap_dataframes, assigned >>

\* the SQL step raises e
SqlFails(e) ==
    /\ pc = "RunningSQL"
    /\ error_occured' = TRUE
    /\ messages' = messages \o SqlFailureTurns(e, nq)
    /\ st_errors' = st_errors + 1
    /\ pc' = PcAfterSqlFailure
    /\ UNCHANGED << df_present, dataframes, question, sql_query, response_df,
                    display_error, nq, qstart, qdfs, sql_calls, viz_calls,
                    plotly_charts, viz_outcome, snap_messages,
                    snap_dataframes, assigned >>

\* the SQL step returns; its query text and table are recorded
SqlReturns(sql, df) ==
    /\ pc = "RunningSQL"
    /\ sql_query' = sql
    /\ response_df' = df
    /\ IF SqlTruthy(sql)
       THEN /\ dataframes' = Append(dataframes, df)
            /\ assigned' = Append(assigned, DfIndex(dataframes))
            /\ messages' =
                   messages \o SqlSuccessTurns(sql, DfIndex(dataframes), nq)
            /\ pc' = "SQLSucceeded"
       ELSE /\ UNCHANGED << dataframes, assigned, messages >>
            /\ pc' = "Done"
    /\ UNCHANGED << df_present, question, error_occured, display_error, nq,
                    qstart, qdfs, sql_calls, viz_calls, st_errors, plotly_charts,
                    viz_outcome, snap_messages, snap_dataframes >>

\* data_visualization_agent.invoke_agent(...) is entered
InvokeViz ==
    /\ pc = "SQLSucceeded"
    /\ viz_calls' = viz_calls + 1
    /\ snap_messages' = messages
    /\ snap_dataframes' = dataframes
    /\ pc' = "RunningVisualization"
    /\ UNCHANGED << messages, df_present, dataframes, question,
                    error_occured, sql_query, response_df, display_error, nq,
                    qstart, qdfs, sql_calls, st_errors, plotly_charts, viz_outcome,
                    assigned >>

\* the visualization step raises e
VizFails(e) ==
    /\ pc = "RunningVisualization"
    /\ st_errors' = st_errors + 1
    /\ messages' = messages \o VizFailureTurns(e, nq)
    /\ viz_outcome' = "failed"
    /\ pc' = "Done"
    /\ UNCHANGED << df_present, dataframes, question, error_occured,
                    sql_query, response_df, display_error, nq, qstart, qdfs,
                    sql_calls, viz_calls, plotly_charts, snap_messages,
                    snap_dataframes, assigned >>

\* the visualization step returns; g is get_plotly_graph()
VizReturns(g) ==
    /\ pc = "RunningVisualization"
    /\ IF GraphTruthy(g)
       THEN /\ plotly_charts' = plotly_charts + 1
            /\ messages' = messages \o VizSuccessTurns(nq)
       ELSE /\ UNCHANGED << plotly_charts, messages >>
    /\ viz_outcome' = IF g # "None" THEN "chart" ELSE "nochart"
    /\ pc' = "Done"
    /\ UNCHANGED << df_present, dataframes, question, error_occured,
                    sql_query, response_df, display_error, nq, qstart, qdfs,
                    sql_calls, viz_calls, st_errors, snap_messages,
                    snap_dataframes, assigned >>

Next ==
    \/ Rerun
    \/ \E q \in Questions : AcceptQuestion(q)
    \/ InvokeSQL
    \/ \E e \in Errors : SqlFails(e)
    \/ \E sql \in SqlTexts, df \in Tables : SqlReturns(sql, df)
    \/ InvokeViz
    \/ \E e \in Errors : VizFails(e)
    \/ \E g \in Graphs : VizReturns(g)

Spec == Init /\ [][Next]_vars

\* The run is straight-line code that blocks on the two external calls:
\* a call that is due is made, and a call that was made returns or raises.
SqlStepEnds ==
    \/ \E e \in Errors : SqlFails(e)
    \/ \E sql \in SqlTexts, df \in Tables : SqlReturns(sql, df)

VizStepEnds ==
    \/ \E e \in Errors : VizFails(e)
    \/ \E g \in Graphs : VizReturns(g)

LiveSpec ==
    /\ Spec
    /\ WF_vars(InvokeSQL)
    /\ WF_vars(SqlStepEnds)
    /\ WF_vars(InvokeViz)
    /\ WF_vars(VizStepEnds)

\* ------------------------------------------------------------- properties
\* the turns of the question under processing, and the assistant ones
QuestionTurnsNow == SubSeq(messages, qstart + 1, Len(messages))

AssistantTurns == SelectSeq(QuestionTurnsNow, LAMBDA m : m.type = "ai")

Whats(turns) == [i \in 1..Len(turns) |-> turns[i].what]

Finished == pc \in {"Done", "Idle"}

\* C1: when the SQL step fails, the visualization step is not invoked for
\* that question and exactly one assistant turn, the error message, is
\* appended for it.
C1_SqlFailureStopsThere ==
    error_occured =>
        /\ Finished
        /\ viz_calls = 0
        /\ Whats(AssistantTurns) = << "error" >>

C1_Witness == pc = "Done" /\ error_occured /\ nq = 2

\* C2: when the visualization step is invoked and fails, no turn is appended
\* for the failure, exactly one warning is surfaced outside the transcript,
\* no chart is stored or shown, and the user turn, SQL-text turn and
\* table-reference turn and the stored tables are as they were when the
\* visualization step was invoked.
C2_VizFailureKeepsSqlResult ==
    (pc = "Done" /\ viz_outcome = "failed") =>
        /\ messages = snap_messages
        /\ dataframes = snap_dataframes
        /\ Whats(QuestionTurnsNow) = << "question", "sql_text", "table_ref" >>
        /\ st_errors = 1
        /\ plotly_charts = 0
        /\ ChartArtifacts = << >>

C2_Witness ==
    pc = "Done" /\ viz_outcome = "failed" /\ nq = 2 /\ Len(dataframes) = 2

\* C3 (as claimed): when the SQL step succeeds with non-empty SQL text and a
\* table of zero rows, the visualization step is not invoked and exactly two
\* assistant turns are appended, SQL text then table reference.
C3_EmptyTableSkipsVisualization ==
    (pc = "Done" /\ ~error_occured /\ sql_query # << >>
                 /\ response_df = "empty") =>
        /\ viz_calls = 0
        /\ Whats(AssistantTurns) = << "sql_text", "table_ref" >>

\* C4 (as claimed): when both steps succeed, exactly four assistant turns are
\* appended: SQL text, table reference, chart reference, confirmation.
C4_BothSucceedFourTurns ==
    (pc = "Done" /\ viz_outcome = "chart") =>
        Whats(AssistantTurns) =
            << "sql_text", "table_ref", "chart_ref", "viz_confirmation" >>

\* C5 (as claimed): after any sequence of questions, every turn that
\* display_chat_history resolves as a table reference names a stored table,
\* the references appear in creation order, and they are exactly the stored
\* tables.
ReferenceTurns == SelectSeq(messages, LAMBDA m : HasMarker(m.content))

C5_ReferencesResolveInOrder ==
    Finished =>
        /\ Len(ReferenceTurns) = Len(dataframes)
        /\ \A i \in 1..Len(ReferenceTurns) :
               /\ RenderOutcome(ReferenceTurns[i], dataframes) = "dataframe"
               /\ StrToInt(SplitSecond(ReferenceTurns[i].content)) = i - 1

\* C6: the indices handed out to tables are 0..k-1 in order, one per stored
\* table, never reused, and the k-th table-reference turn carries index k-1.
TableRefTurns == SelectSeq(messages, LAMBDA m : m.what = "table_ref")

C6_IndicesContiguous ==
    /\ Len(assigned) = Len(dataframes)
    /\ \A i \in 1..Len(assigned) : assigned[i] = i - 1
    /\ Len(TableRefTurns) = Len(dataframes)
    /\ \A i \in 1..Len(TableRefTurns) :
           TableRefTurns[i].content = DataframeRef(i - 1)

C6_Witness == Len(dataframes) = 2 /\ pc = "Done" /\ nq = 2

\* C7 (as claimed): after two consecutive questions each producing a table
\* and a chart, the store holds tables at indices 0 and 1 and charts at
\* indices 0 and 1.
ChartsMade == SelectSeq(messages, LAMBDA m : m.what = "viz_confirmation")

C7_TwoQuestionsTwoCharts ==
    (pc = "Done" /\ nq = 2 /\ Len(ChartsMade) = 2) =>
        /\ Len(dataframes) = 2
        /\ Len(ChartArtifacts) = 2

\* C8: within a question the table-reference turn comes after the SQL-text
\* turn, and a visualization turn comes after the table-reference turn.
HasEarlier(i, what) ==
    \E j \in 1..(i - 1) : messages[j].q = messages[i].q
                          /\ messages[j].what = what

HasLater(i, what) ==
    \E j \in (i + 1)..Len(messages) : messages[j].q = messages[i].q
                                      /\ messages[j].what = what

C8_AppendOrder ==
    \A i \in 1..Len(messages) :
        /\ messages[i].what = "table_ref" =>
               HasEarlier(i, "sql_text") /\ ~HasLater(i, "sql_text")
        /\ messages[i].what = "viz_confirmation" =>
               HasEarlier(i, "table_ref") /\ ~HasLater(i, "table_ref")

C8_Witness ==
    \E i \in 1..Len(messages) :
        messages[i].what = "viz_confirmation" /\ messages[i].q = 2

\* C9: every accepted question has exactly one user turn, carrying the
\* question text, appended before the SQL step is invoked and before any
\* assistant turn of that question.
HumanTurns == SelectSeq(messages, LAMBDA m : m.type = "human")

C9_UserTurnFirst ==
    /\ Len(HumanTurns) = nq
    /\ nq > 0 =>
        /\ Len(messages) > qstart
        /\ messages[qstart + 1].type = "human"
        /\ messages[qstart + 1].content = question
        /\ \A i \in (qstart + 2)..Len(messages) : messages[i].type = "ai"
        /\ pc = "RecordingQuestion" =>
               sql_calls = 0 /\ Len(messages) = qstart + 1

C9_Witness == pc = "RunningSQL" /\ nq = 2 /\ question = << MARKER, "0" >>

\* C10: no step is retried: per question the SQL step is invoked exactly
\* once and the visualization step at most once, and a failed step is not
\* invoked again.
C10_NoRetry ==
    /\ sql_calls <= 1
    /\ viz_calls <= 1
    /\ (nq > 0 /\ pc # "RecordingQuestion") => sql_calls = 1
    /\ error_occured => Finished
    /\ viz_outcome # "none" => Finished /\ viz_calls = 1

C10_Witness == pc = "Done" /\ viz_outcome = "failed" /\ error_occured = FALSE
               /\ nq = 2 /\ sql_calls = 1 /\ viz_calls = 1

\* C11 (as claimed): when the SQL step fails, the stored tables are left as
\* they were, the one assistant turn appended is literal text that embeds
\* the failure cause and is not rendered as an artifact reference, and the
\* processing of the question stops there.
C11_SqlFailureLiteralText ==
    (pc = "Done" /\ error_occured) =>
        /\ Len(dataframes) = qdfs
        /\ Len(AssistantTurns) = 1
        /\ \E e \in Errors : AssistantTurns[1].content = ErrorText(e)
        /\ RenderOutcome(AssistantTurns[1], dataframes) = "write"
        /\ viz_calls = 0

\* C12 (as claimed): when the SQL step returns a query text but no table,
\* the outcome is treated as a failure of the SQL step: no table is stored,
\* no table-reference turn is appended and the visualization step is not
\* invoked.
C12_InvalidResultIsFailure ==
    (pc = "Done" /\ ~error_occured /\ sql_query # << >>
                 /\ response_df = "None") =>
        /\ Len(dataframes) = qdfs
        /\ \A i \in 1..Len(QuestionTurnsNow) :
               QuestionTurnsNow[i].what # "table_ref"
        /\ viz_calls = 0

\* C13: given that each external call returns or raises, every accepted
\* question reaches Done, and no question is accepted (its user turn
\* appended) while another is still being processed.
C13_ReachesDoneNoOverlap ==
    /\ (pc = "RecordingQuestion") ~> (pc = "Done")
    /\ [][nq' # nq => Finished]_vars

C13_Witness == pc = "Done" /\ nq = 2 /\ viz_outcome = "chart"

\* C14: the transcript is append-only: every step of the program leaves the
\* messages it found as a prefix of the messages it leaves.
IsPrefix(old, new) ==
    Len(new) >= Len(old) /\ SubSeq(new, 1, Len(old)) = old

C14_TranscriptAppendOnly == [][IsPrefix(messages, messages')]_vars

C14_Witness ==
    pc = "Idle" /\ display_error = "none" /\ nq = 2 /\ Len(messages) >= 7

\* C15: the store of tables is write-once per slot: no step shortens it or
\* changes a payload already stored, a script re-run and a later question
\* included.
C15_StoreWriteOnce == [][IsPrefix(dataframes, dataframes')]_vars

C15_Witness ==
    /\ pc = "Idle"
    /\ display_error = "none"
    /\ Len(dataframes) = 2
    /\ dataframes[1] # dataframes[2]

\* C16: when the SQL step returns with an empty query text, the transcript
\* gains only the user turn, no table is stored and the visualization step
\* is not invoked.
C16_EmptyQueryRecordsNothing ==
    (pc = "Done" /\ ~error_occured /\ sql_query = << >>) =>
        /\ QuestionTurnsNow = QuestionTurns(question, nq)
        /\ Len(dataframes) = qdfs
        /\ viz_calls = 0

C16_Witness ==
    pc = "Done" /\ ~error_occured /\ sql_query = << >> /\ nq = 2
                /\ sql_calls = 1

\* C17: when the visualization step returns without a chart, no turn is
\* appended, no warning is surfaced and nothing is stored: transcript and
\* store at Done are those found when the visualization step was invoked.
C17_NoChartRecordsNothing ==
    (pc = "Done" /\ viz_outcome = "nochart") =>
        /\ messages = snap_messages
        /\ dataframes = snap_dataframes
        /\ st_errors = 0
        /\ plotly_charts = 0

C17_Witness == pc = "Done" /\ viz_outcome = "nochart" /\ nq = 2

\* C18: session initialisation is idempotent across script runs: once a run
\* has initialised the session the greeting is the first turn and occurs
\* once, the store holds every table handed an index, and a run that
\* accepts no question leaves transcript and store as they were.
Greetings ==
    SelectSeq(messages, LAMBDA m : m.type = "ai" /\ m.content = Greeting)

C18_InitIdempotent ==
    /\ [](df_present =>
            /\ Len(Greetings) = 1
            /\ messages[1].type = "ai" /\ messages[1].content = Greeting
            /\ Len(dataframes) = Len(assigned))
    /\ [][(df_present /\ pc' = "Idle") =>
            (messages' = messages /\ dataframes' = dataframes)]_vars

C18_Witness ==
    pc = "Idle" /\ nq = 2 /\ Len(dataframes) = 2 /\ Len(messages) = 7

====
